---- MODULE Spec2Model ----
(***************************************************************************)
(* A model of inventory_system.py: the InventoryManager class, whose state *)
(* is the dict stock_data, and the file inventory.json it loads and saves. *)
(*                                                                         *)
(* A Python dict keeps its keys in insertion order, so stock_data is a     *)
(* sequence of <<key, quantity>> pairs with pairwise distinct keys.        *)
(* Python values that are used as items or quantities are tagged records   *)
(* (PyStr, PyInt), so that an int key 123 and a str key "123" are distinct *)
(* values, as they are in a Python dict.  Quantities stored in stock_data  *)
(* are plain integers.                                                     *)
(***************************************************************************)
EXTENDS Integers, Sequences, FiniteSets, TLC

VARIABLES
    stock_data, \* self.stock_data: sequence of <<key, quantity>>
    logs,       \* the list a caller passes to add_item as logs
    disk,       \* the contents of the file inventory.json
    last,       \* the last call made on the InventoryManager and its outcome
    scen        \* how many calls of the scenario of main() were made so far,
                \* Off once another add_item, remove_item or load_data was made

vars == <<stock_data, logs, disk, last, scen>>

----------------------------------------------------------------------------
(* Bounds of the model *)

MaxQty == 2          \* quantities passed to add_item / remove_item: -MaxQty..MaxQty
MaxStock == 5        \* Spec: stored quantities stay in -MaxStock..MaxStock (SpecLog: -MaxQty..MaxQty)
MaxLog == 2          \* SpecLog: the caller's list holds at most MaxLog messages
MaxPersistQty == 1   \* SpecPersist: quantities passed are 1..MaxPersistQty, stored ones at most that
MaxMainStock == 10   \* SpecMain: stored quantities stay in -MaxMainStock..MaxMainStock

----------------------------------------------------------------------------
(* Python values *)

PyStr(s) == [t |-> "str", s |-> s]
PyInt(n) == [t |-> "int", n |-> n]

\* A variant of Falsy: item == "".
FalsyOnlyEmptyStr(item) == item.t = "str" /\ item.s = ""

\* `not item` (line 30): the empty string and the integer 0 are falsy.
Falsy(item) == IF item.t = "str" THEN item.s = "" ELSE item.n = 0

Abs(n) == IF n < 0 THEN -n ELSE n

----------------------------------------------------------------------------
(* dict operations on a sequence of <<key, value>> pairs *)

Keys(d) == {d[i][1] : i \in 1..Len(d)}

Has(d, k) == \E i \in 1..Len(d) : d[i][1] = k

IndexOf(d, k) == CHOOSE i \in 1..Len(d) : d[i][1] = k

\* d[k], defined when Has(d, k); Python raises KeyError otherwise.
Get(d, k) == d[IndexOf(d, k)][2]

\* d.get(k, default)
GetOr(d, k, default) == IF Has(d, k) THEN Get(d, k) ELSE default

\* d[k] = v: an existing key keeps its position, a new key goes last.
SetItem(d, k, v) ==
    IF Has(d, k)
    THEN [i \in 1..Len(d) |-> IF d[i][1] = k THEN <<k, v>> ELSE d[i]]
    ELSE Append(d, <<k, v>>)

\* A variant of DelItem: d.clear().
DelItemClears(d, k) == <<>>

\* del d[k]
DelItem(d, k) == SelectSeq(d, LAMBDA e : e[1] # k)

----------------------------------------------------------------------------
(* The file inventory.json.  A JSON object text is the sequence of its     *)
(* members, each <<key string, number literal>>, in the order written.     *)

Missing == [t |-> "missing"]          \* open(file, "r") fails
Malformed == [t |-> "malformed"]      \* the contents are not valid JSON
ObjectText(members) == [t |-> "object", members |-> members]

\* json.dumps writes a str key as it is and an int key as its decimal digits.
JsonKey(k) == IF k.t = "str" THEN k.s ELSE ToString(k.n)

\* A variant of dumps: the last member is not written.
dumpsDropsLast(d) ==
    [i \in 1..(IF Len(d) = 0 THEN 0 ELSE Len(d) - 1) |->
        <<JsonKey(d[i][1]), ToString(d[i][2])>>]

\* json.dumps(self.stock_data) (line 83)
dumps(d) == [i \in 1..Len(d) |-> <<JsonKey(d[i][1]), ToString(d[i][2])>>]

Widest == MaxStock + MaxPersistQty + MaxMainStock + 1

\* The integer a JSON number literal denotes.
ParseInt(s) == CHOOSE n \in -Widest..Widest : ToString(n) = s

\* json.loads of an object text (line 73): every key is a str, and a key that
\* is repeated keeps its first position and takes its last value.
RECURSIVE loadsFrom(_, _)
loadsFrom(members, acc) ==
    IF members = <<>> THEN acc
    ELSE loadsFrom(Tail(members),
                   SetItem(acc, PyStr(Head(members)[1]), ParseInt(Head(members)[2])))

\* A variant of loads: self.stock_data.update(json.loads(...)).
loadsMerges(members) == loadsFrom(members, stock_data)

loads(members) == loadsFrom(members, <<>>)

----------------------------------------------------------------------------
(* The scenario of main(), lines 109, 110, 112 and 113 *)

Apple == PyStr("apple")
Banana == PyStr("banana")
Orange == PyStr("orange")

Script ==
    << [op |-> "add_item", item |-> Apple, qty |-> PyInt(10)],
       [op |-> "add_item", item |-> Banana, qty |-> PyInt(-2)],
       [op |-> "remove_item", item |-> Apple, qty |-> PyInt(3)],
       [op |-> "remove_item", item |-> Orange, qty |-> PyInt(1)] >>

Off == -1

\* scen after a call of add_item or remove_item: one more when the call is the
\* scenario's next call, Off for any other one.
Track(op, item, qty) ==
    IF /\ scen # Off
       /\ scen < Len(Script)
       /\ Script[scen + 1] = [op |-> op, item |-> item, qty |-> qty]
    THEN scen + 1
    ELSE Off

----------------------------------------------------------------------------
(* The operations of InventoryManager *)

\* __init__ (lines 17-19); inventory.json does not exist yet.
Init ==
    /\ stock_data = <<>>
    /\ logs = <<>>
    /\ disk = Missing
    /\ last = [op |-> "__init__"]
    /\ scen = 0

\* The message add_item appends (line 35), without its time stamp.
Message(qty, item) == [added |-> qty, of |-> item]

\* Variants of AddTo: the quantity overwrites the entry; the entry is deleted
\* when the sum is not positive, as remove_item does.
AddToOverwrites(d, item, n) == SetItem(d, item, n)

AddToDeletes(d, item, n) ==
    LET sum == GetOr(d, item, 0) + n
    IN  IF sum <= 0 THEN DelItem(d, item) ELSE SetItem(d, item, sum)

\* self.stock_data[item] = self.stock_data.get(item, 0) + qty (line 34)
AddTo(d, item, n) == SetItem(d, item, GetOr(d, item, 0) + n)

\* add_item(item, qty) and add_item(item, qty, logs) (lines 21-35).
\* A qty that is a str raises TypeError at line 34, before the assignment:
\* the quantity it is added to is an int.  last.created tells whether the
\* call made the entry.
add_item(item, qty, withLogs) ==
    /\ scen' = Track("add_item", item, qty)
    /\ UNCHANGED disk
    /\ IF Falsy(item)
       THEN /\ UNCHANGED <<stock_data, logs>>
            /\ last' = [op |-> "add_item", item |-> item, qty |-> qty,
                        withLogs |-> withLogs, exc |-> ""]
       ELSE IF qty.t # "int"
       THEN /\ UNCHANGED <<stock_data, logs>>
            /\ last' = [op |-> "add_item", item |-> item, qty |-> qty,
                        withLogs |-> withLogs, exc |-> "TypeError"]
       ELSE /\ stock_data' = AddTo(stock_data, item, qty.n)
            /\ logs' = IF withLogs THEN Append(logs, Message(qty.n, item)) ELSE logs
            /\ last' = [op |-> "add_item", item |-> item, qty |-> qty,
                        withLogs |-> withLogs, exc |-> "",
                        created |-> ~Has(stock_data, item)]

\* A variant of RemoveFrom: an entry that reaches 0 is kept.
RemoveFromKeepsZero(d, item, n) ==
    LET left == Get(d, item) - n
    IN  IF left < 0 THEN DelItem(d, item) ELSE SetItem(d, item, left)

\* Lines 46-48, for an item that is in d.
RemoveFrom(d, item, n) ==
    LET left == Get(d, item) - n
    IN  IF left <= 0 THEN DelItem(d, item) ELSE SetItem(d, item, left)

\* A variant of remove_item: no try/except, so the KeyError of an absent item
\* reaches the caller.
remove_item_uncaught(item, qty) ==
    /\ scen' = Track("remove_item", item, qty)
    /\ UNCHANGED <<logs, disk>>
    /\ last' = [op |-> "remove_item", item |-> item, qty |-> qty,
                exc |-> IF Has(stock_data, item) THEN "" ELSE "KeyError",
                found |-> Has(stock_data, item)]
    /\ IF Has(stock_data, item)
       THEN stock_data' = RemoveFrom(stock_data, item, qty.n)
       ELSE UNCHANGED stock_data

\* remove_item(item, qty) (lines 37-51); the KeyError of an absent item is
\* caught at line 49.  last.found tells whether the item was there.
remove_item(item, qty) ==
    /\ scen' = Track("remove_item", item, qty)
    /\ UNCHANGED <<logs, disk>>
    /\ last' = [op |-> "remove_item", item |-> item, qty |-> qty, exc |-> "",
                found |-> Has(stock_data, item)]
    /\ IF Has(stock_data, item)
       THEN stock_data' = RemoveFrom(stock_data, item, qty.n)
       ELSE UNCHANGED stock_data

\* A variant of get_qty: self.stock_data.get(item, 0).
get_qty_default(item) ==
    /\ UNCHANGED <<stock_data, logs, disk, scen>>
    /\ last' = [op |-> "get_qty", item |-> item,
                ret |-> GetOr(stock_data, item, 0), exc |-> ""]

\* get_qty(item) (lines 53-63)
get_qty(item) ==
    /\ UNCHANGED <<stock_data, logs, disk, scen>>
    /\ last' = IF Has(stock_data, item)
               THEN [op |-> "get_qty", item |-> item,
                     ret |-> Get(stock_data, item), exc |-> ""]
               ELSE [op |-> "get_qty", item |-> item, exc |-> "KeyError"]

DefaultThreshold == 5

\* A variant of LowItems: qty <= threshold.
LowItemsOrEqual(d, threshold) ==
    LET low == SelectSeq(d, LAMBDA e : e[2] <= threshold)
    IN  [i \in 1..Len(low) |-> low[i][1]]

\* The list comprehension of lines 101-102.
LowItems(d, threshold) ==
    LET low == SelectSeq(d, LAMBDA e : e[2] < threshold)
    IN  [i \in 1..Len(low) |-> low[i][1]]

\* check_low_items() and check_low_items(threshold) (lines 91-102)
check_low_items(given, threshold) ==
    /\ UNCHANGED <<stock_data, logs, disk, scen>>
    /\ last' = [op |-> "check_low_items", given |-> given,
                threshold |-> IF given THEN threshold ELSE DefaultThreshold,
                ret |-> LowItems(stock_data,
                                 IF given THEN threshold ELSE DefaultThreshold),
                exc |-> ""]

\* print_data() (lines 85-89): the header, then one line per item.
print_data ==
    /\ UNCHANGED <<stock_data, logs, disk, scen>>
    /\ last' = [op |-> "print_data", header |-> "Items Report",
                lines |-> stock_data, exc |-> ""]

\* load_data() (lines 65-73): open fails, or json.loads fails, or the parsed
\* object replaces self.stock_data.  last.had is the set of keys held before
\* the call, last.after_save tells whether the call before it was a save_data
\* that wrote the file.
load_data ==
    /\ UNCHANGED <<logs, disk>>
    /\ scen' = Off
    /\ LET called == [op |-> "load_data", had |-> Keys(stock_data),
                      after_save |-> (last.op = "save_data" /\ last.exc = "")]
       IN  IF disk.t = "missing"
           THEN /\ UNCHANGED stock_data
                /\ last' = called @@ [exc |-> "FileNotFoundError"]
           ELSE IF disk.t = "malformed"
           THEN /\ UNCHANGED stock_data
                /\ last' = called @@ [exc |-> "JSONDecodeError"]
           ELSE /\ stock_data' = loads(disk.members)
                /\ last' = called @@ [exc |-> ""]

\* save_data() (lines 75-83): open(file, "w") fails and leaves the file as it
\* was; or it truncates the file and the write fails, leaving text that is no
\* JSON; or the text of json.dumps is written.
save_data ==
    /\ UNCHANGED <<stock_data, logs, scen>>
    /\ \/ /\ UNCHANGED disk
          /\ last' = [op |-> "save_data", exc |-> "OSError", opened |-> FALSE]
       \/ /\ disk' = Malformed
          /\ last' = [op |-> "save_data", exc |-> "OSError", opened |-> TRUE]
       \/ /\ disk' = ObjectText(dumps(stock_data))
          /\ last' = [op |-> "save_data", exc |-> "", opened |-> TRUE]

----------------------------------------------------------------------------
(* The calls a client makes.  The guards keep the stored quantities within *)
(* the bound of the specification, and the caller's list within MaxLog.    *)

AddFits(item, qty, cap) ==
    IF Falsy(item) \/ qty.t # "int"
    THEN TRUE
    ELSE Abs(GetOr(stock_data, item, 0) + qty.n) <= cap

RemoveFits(item, qty, cap) ==
    IF Has(stock_data, item)
    THEN Get(stock_data, item) - qty.n <= cap
    ELSE TRUE

\* Line 35 appends to the caller's list, when it is reached.
LogFits(item, withLogs) == (withLogs /\ ~Falsy(item)) => Len(logs) < MaxLog

Items == {Apple, PyInt(123), PyStr(""), PyInt(0)}

Qtys == {PyInt(n) : n \in -MaxQty..MaxQty}

Thresholds == -MaxStock..(MaxStock + 1)

\* Any call but load_data and save_data, with no list of logs.
Next ==
    \/ \E item \in Items, qty \in Qtys \cup {PyStr("ten")} :
          /\ AddFits(item, qty, MaxStock)
          /\ add_item(item, qty, FALSE)
    \/ \E item \in Items, qty \in Qtys :
          /\ RemoveFits(item, qty, MaxStock)
          /\ remove_item(item, qty)
    \/ \E item \in Items \cup {Banana} : get_qty(item)
    \/ \E threshold \in Thresholds : check_low_items(TRUE, threshold)
    \/ check_low_items(FALSE, DefaultThreshold)
    \/ print_data

Spec == Init /\ [][Next]_vars

LogItems == {Apple, PyStr(""), PyInt(0)}

\* add_item with and without a list of logs, and remove_item.
NextLog ==
    \/ \E item \in LogItems, qty \in Qtys, withLogs \in BOOLEAN :
          /\ AddFits(item, qty, MaxQty)
          /\ LogFits(item, withLogs)
          /\ add_item(item, qty, withLogs)
    \/ \E item \in LogItems, qty \in Qtys :
          /\ RemoveFits(item, qty, MaxQty)
          /\ remove_item(item, qty)

SpecLog == Init /\ [][NextLog]_vars

PersistItems == {Apple, PyInt(123), PyStr("")}

PersistQtys == {PyInt(n) : n \in 1..MaxPersistQty}

\* Every operation, on a store whose file may exist already.
InitPersist ==
    /\ stock_data = <<>>
    /\ logs = <<>>
    /\ disk \in {Missing, Malformed, ObjectText(<<>>), ObjectText(<< <<"apple", "-1">> >>)}
    /\ last = [op |-> "__init__"]
    /\ scen = 0

NextPersist ==
    \/ \E item \in PersistItems, qty \in PersistQtys :
          /\ AddFits(item, qty, MaxPersistQty)
          /\ add_item(item, qty, FALSE)
    \/ \E item \in PersistItems, qty \in PersistQtys :
          /\ RemoveFits(item, qty, MaxPersistQty)
          /\ remove_item(item, qty)
    \/ \E item \in PersistItems \cup {PyStr("123")} : get_qty(item)
    \/ check_low_items(FALSE, DefaultThreshold)
    \/ print_data
    \/ load_data
    \/ save_data

SpecPersist == InitPersist /\ [][NextPersist]_vars

\* The calls of main() (lines 109-118), in any order and any number of times.
MainAdds == {<<Apple, PyInt(10)>>, <<Banana, PyInt(-2)>>, <<PyInt(123), PyStr("ten")>>}

MainRemoves == {<<Apple, PyInt(3)>>, <<Orange, PyInt(1)>>}

NextMain ==
    \/ \E c \in MainAdds :
          /\ AddFits(c[1], c[2], MaxMainStock)
          /\ add_item(c[1], c[2], FALSE)
    \/ \E c \in MainRemoves :
          /\ RemoveFits(c[1], c[2], MaxMainStock)
          /\ remove_item(c[1], c[2])
    \/ get_qty(Apple)
    \/ check_low_items(FALSE, DefaultThreshold)
    \/ save_data
    \/ load_data
    \/ print_data

SpecMain == Init /\ [][NextMain]_vars

----------------------------------------------------------------------------
(* Properties of add_item, remove_item, get_qty and check_low_items (Spec) *)

Elems(seq) == {seq[i] : i \in 1..Len(seq)}

NoRepeat(seq) == \A i, j \in 1..Len(seq) : seq[i] = seq[j] => i = j

\* C1: add_item(item, q) with a truthy item and an integer q raises nothing
\* and leaves the item with its previous quantity (0 if it was absent) plus q;
\* and when the call before it was an add_item(item, q1) that made the entry,
\* the item is left with q1 + q.
C1_AddSums ==
    [][ (last'.op = "add_item" /\ last'.item \notin {PyStr(""), PyInt(0)}
                                 /\ last'.qty.t = "int") =>
          /\ last'.exc = ""
          /\ Has(stock_data', last'.item)
          /\ Get(stock_data', last'.item) =
                (IF Has(stock_data, last'.item)
                 THEN Get(stock_data, last'.item) ELSE 0) + last'.qty.n
          /\ last'.created = ~Has(stock_data, last'.item)
          /\ ( /\ last.op = "add_item"
               /\ last.item = last'.item
               /\ last.qty.t = "int"
               /\ last.created )
             => Get(stock_data', last'.item) = last.qty.n + last'.qty.n
      ]_vars

\* Reached: a second add_item("apple", 2) on an entry that holds 2 leaves 4.
C1_Witness ==
    /\ last.op = "add_item"
    /\ last.item = Apple
    /\ last.qty = PyInt(2)
    /\ ~last.created
    /\ Get(stock_data, Apple) = 4

\* C2: remove_item(item, q) on an item that is in the mapping takes q from its
\* quantity; the entry is deleted when the result is <= 0 and holds the result
\* otherwise; a get_qty(item) right after a deletion raises KeyError.
C2_RemoveDecrements ==
    [][ /\ (last'.op = "remove_item" /\ Has(stock_data, last'.item)) =>
             LET left == Get(stock_data, last'.item) - last'.qty.n
             IN  /\ last'.exc = ""
                 /\ IF left <= 0
                    THEN ~Has(stock_data', last'.item)
                    ELSE /\ Has(stock_data', last'.item)
                         /\ Get(stock_data', last'.item) = left
        /\ ( /\ last.op = "remove_item"
             /\ last.found
             /\ ~Has(stock_data, last.item)
             /\ last'.op = "get_qty"
             /\ last'.item = last.item )
           => last'.exc = "KeyError"
      ]_vars

\* Reached: remove_item("apple", 2) has deleted the entry of "apple", and
\* another item is in stock.
C2_Witness ==
    /\ last.op = "remove_item"
    /\ last.item = Apple
    /\ last.qty = PyInt(2)
    /\ last.found
    /\ ~Has(stock_data, Apple)
    /\ Has(stock_data, PyInt(123))

\* C5: check_low_items(threshold) returns the items whose quantity is below
\* the threshold, all of them, no other, each once; check_low_items() does so
\* for the threshold 5.
C5_LowItemsExact ==
    [][ last'.op = "check_low_items" =>
          LET threshold == IF last'.given THEN last'.threshold ELSE 5
          IN  /\ last'.exc = ""
              /\ \A k \in Keys(stock_data) :
                    (k \in Elems(last'.ret)) <=> (Get(stock_data, k) < threshold)
              /\ Elems(last'.ret) \subseteq Keys(stock_data)
              /\ NoRepeat(last'.ret)
      ]_vars

\* Reached: of two items, the one whose quantity equals the threshold is left out.
C5_Witness ==
    /\ last.op = "check_low_items"
    /\ last.given
    /\ Len(stock_data) = 2
    /\ Len(last.ret) = 1
    /\ \E k \in Keys(stock_data) : Get(stock_data, k) = last.threshold

\* C6: remove_item(item, q) on an item that is not in the mapping raises
\* nothing and leaves the mapping as it was.
C6_RemoveAbsentNoOp ==
    [][ (last'.op = "remove_item" /\ ~Has(stock_data, last'.item)) =>
          /\ last'.exc = ""
          /\ stock_data' = stock_data
      ]_vars

\* Reached: remove_item of an absent item with a negative quantity, on a
\* mapping that is not empty.
C6_Witness ==
    /\ last.op = "remove_item"
    /\ ~last.found
    /\ last.qty.n < 0
    /\ stock_data # <<>>

\* Items that no call of Spec ever stores: "banana" is never passed to
\* add_item, and add_item returns at once for a falsy item.
NeverAdded == {Banana, PyStr(""), PyInt(0)}

----------------------------------------------------------------------------
(* add_item with a falsy item (SpecLog) *)

\* C9: add_item(item, q, logs) with a falsy item ("" or 0) raises nothing,
\* leaves the mapping as it was and appends nothing to logs.
C9_FalsyItemIgnored ==
    [][ (last'.op = "add_item" /\ last'.item \in {PyStr(""), PyInt(0)}) =>
          /\ last'.exc = ""
          /\ stock_data' = stock_data
          /\ logs' = logs
      ]_vars

\* Reached: add_item(0, q, logs) with q # 0, on a list that holds a message
\* and a mapping that is not empty.
C9_Witness ==
    /\ last.op = "add_item"
    /\ last.item = PyInt(0)
    /\ last.withLogs
    /\ last.qty.n # 0
    /\ Len(logs) = 1
    /\ stock_data # <<>>

----------------------------------------------------------------------------
(* The scenario of main() (SpecMain) *)

\* C3, as the specification states it: after the four calls of the scenario
\* "apple" holds 7, "banana" is absent, and check_low_items() returns no item
\* whose quantity is 5 or more.
C3_ScenarioAsStated ==
    scen = Len(Script) =>
        /\ Has(stock_data, Apple)
        /\ Get(stock_data, Apple) = 7
        /\ ~Has(stock_data, Banana)
        /\ last.op = "check_low_items" =>
              \A k \in Elems(last.ret) : Get(stock_data, k) < 5

\* C3, amended: after the four calls of the scenario "apple" holds 7, get_qty
\* returns it, "banana" is in the mapping with -2, "orange" is absent, and
\* check_low_items() returns ["banana"], no item whose quantity is 5 or more.
C3_ScenarioAmended ==
    scen = Len(Script) =>
        /\ Has(stock_data, Apple)
        /\ Get(stock_data, Apple) = 7
        /\ Has(stock_data, Banana)
        /\ Get(stock_data, Banana) = -2
        /\ ~Has(stock_data, Orange)
        /\ (last.op = "get_qty" /\ last.item = Apple) =>
              (last.exc = "" /\ last.ret = 7)
        /\ last.op = "check_low_items" =>
              /\ last.ret = <<Banana>>
              /\ \A k \in Elems(last.ret) : Get(stock_data, k) < 5

\* Reached: check_low_items() right after the four calls of the scenario.
C3_Witness ==
    /\ scen = Len(Script)
    /\ last.op = "check_low_items"
    /\ ~last.given

----------------------------------------------------------------------------
(* load_data, save_data and the frame of every operation (SpecPersist) *)

AllStrKeys(d) == \A k \in Keys(d) : k.t = "str"

SameMapping(a, b) ==
    /\ Keys(a) = Keys(b)
    /\ \A k \in Keys(a) : Get(a, k) = Get(b, k)

\* C4: save_data leaves the mapping as it is; and a load_data right after a
\* save_data that wrote the file raises nothing and leaves a mapping equal to
\* the saved one, when the keys of the saved mapping are strings.
C4_SaveLoadRoundTrip ==
    [][ /\ last'.op = "save_data" => stock_data' = stock_data
        /\ ( /\ last.op = "save_data"
             /\ last.exc = ""
             /\ last'.op = "load_data"
             /\ AllStrKeys(stock_data) )
           => /\ last'.exc = ""
              /\ SameMapping(stock_data', stock_data)
      ]_vars

\* Reached: load_data right after save_data, on a mapping of two str keys.
C4_Witness ==
    /\ last.op = "load_data"
    /\ last.after_save
    /\ last.exc = ""
    /\ Cardinality(last.had) = 2
    /\ \A k \in last.had : k.t = "str"
    /\ Keys(stock_data) = last.had

\* C8: load_data either raises nothing and leaves exactly the object of the
\* file (its keys, as strs, each with the value of its last member), or the
\* file is missing or no JSON, the error is raised and the mapping is the one
\* held before the call.
C8_LoadReplacesOrKeeps ==
    [][ last'.op = "load_data" =>
          IF last'.exc = ""
          THEN /\ disk.t = "object"
               /\ Keys(stock_data') =
                     {PyStr(disk.members[i][1]) : i \in 1..Len(disk.members)}
               /\ \A i \in 1..Len(disk.members) :
                     (\A j \in (i + 1)..Len(disk.members) :
                          disk.members[j][1] # disk.members[i][1])
                     => ToString(Get(stock_data', PyStr(disk.members[i][1])))
                           = disk.members[i][2]
          ELSE /\ disk.t \in {"missing", "malformed"}
               /\ last'.exc = IF disk.t = "missing"
                              THEN "FileNotFoundError" ELSE "JSONDecodeError"
               /\ stock_data' = stock_data
      ]_vars

\* Reached: a load_data that raised nothing, after which a key held before
\* the call is gone and the mapping is not empty.
C8_Witness ==
    /\ last.op = "load_data"
    /\ last.exc = ""
    /\ stock_data # <<>>
    /\ \E k \in last.had : ~Has(stock_data, k)

\* C10: add_item and remove_item leave every item but the one named as it
\* was, present with the same quantity or absent; get_qty, check_low_items,
\* print_data and save_data leave the mapping as it was.
C10_Frame ==
    [][ /\ last'.op \in {"add_item", "remove_item"} =>
             \A k \in (Keys(stock_data) \cup Keys(stock_data')) \ {last'.item} :
                 /\ Has(stock_data, k)
                 /\ Has(stock_data', k)
                 /\ Get(stock_data', k) = Get(stock_data, k)
        /\ last'.op \in {"get_qty", "check_low_items", "print_data", "save_data"} =>
             stock_data' = stock_data
      ]_vars

\* Reached: remove_item has deleted the entry of the int 123 and the entries
\* of "apple" and of the str "123" are in the mapping.
C10_Witness ==
    /\ last.op = "remove_item"
    /\ last.item = PyInt(123)
    /\ last.found
    /\ Keys(stock_data) = {Apple, PyStr("123")}

====
